---- MODULE Spec2Model ----
(***************************************************************************)
(* Flash-Cache: the zero-copy RESP parser (include/parser.hpp) and the     *)
(* linear arena allocator (arena design document), as state machines.      *)
(*                                                                         *)
(* Bytes are one-character strings; carriage return and line feed are the  *)
(* strings "CR" and "LF".  Buffer offsets are 0-based as in the C++ code;  *)
(* At(d, p) reads data[p].                                                 *)
(***************************************************************************)
EXTENDS Integers, Sequences, FiniteSets, TLC

(* ------------------------------ bounds ------------------------------- *)

\* Number of chunks the peer puts on the wire of one connection.
MaxChunks == 2

\* Width of size_t and of int, scaled down so that TLC can enumerate them.
\* What the code relies on is kept: size_t is wider than int, and
\* 2^SizeBits - 2^(IntBits-1) exceeds every buffer length of the model, so a
\* negative int converted to size_t is larger than any len.
SizeBits == 8

\* Capacity of the arena, in bytes (scaled down).
Capacity == 4

IntBits == 6

\* Number of client connections, and of segments the clients send in all.
MaxConns == 2

MaxSegs == 2

\* Size of ClientBuffer::data (4096 in the server), scaled down.
RXCAP == 48

\* Socket handles that are constructed, and descriptors the kernel hands out.
MaxHandles == 4

MaxFds == 2

Conns == 1..MaxConns

SizeMod == 2 ^ SizeBits

IntMod == 2 ^ IntBits

IntHalf == 2 ^ (IntBits - 1)

IntMax == IntHalf - 1

IntMin == 0 - IntHalf

(* ------------------------------ bytes -------------------------------- *)

CR == "CR"

LF == "LF"

CRLF == <<CR, LF>>

\* The chunks a peer may send: whole commands, headers, bulks and raw bytes.
Chunks ==
  { <<"*", "0">> \o CRLF,
    <<"*", "1">> \o CRLF \o <<"$", "1">> \o CRLF \o <<"a">> \o CRLF,
    <<"*", "2">> \o CRLF \o <<"$", "0">> \o CRLF \o CRLF
                 \o <<"$", "2">> \o CRLF \o <<"a", "b">> \o CRLF,
    <<"*", "1">> \o CRLF,
    <<"*", "2">> \o CRLF,
    <<"*", "-", "1">> \o CRLF,
    <<"$", "1">> \o CRLF \o <<"b">> \o CRLF,
    <<"$", "-", "1">> \o CRLF,
    <<"$", "-", "1", "2">> \o CRLF,
    <<"*", "1">> \o CRLF \o <<"$", "-", "1">> \o CRLF,
    <<"*", "1">> \o CRLF \o <<"$", "1">> \o CRLF \o <<"a", "X", "Y">>,
    <<"*", "1">> \o CRLF \o <<"$", "-", "1", "6">> \o CRLF,
    <<"*", "1">> \o CRLF \o <<"$", "6", "4">> \o CRLF \o CRLF,
    <<"a">>,
    CRLF }

RECURSIVE Wires(_)
\* All concatenations of at most k chunks.
Wires(k) ==
  IF k = 0 THEN { <<>> }
  ELSE LET shorter == Wires(k - 1)
       IN shorter \cup { w \o c : w \in shorter, c \in Chunks }

\* Whole commands a client pipelines, and a command cut short.
PipeChunks ==
  { <<"*", "1">> \o CRLF \o <<"$", "4">> \o CRLF \o <<"P", "I", "N", "G">> \o CRLF,
    <<"*", "2">> \o CRLF \o <<"$", "4">> \o CRLF \o <<"e", "c", "h", "o">> \o CRLF
                 \o <<"$", "1">> \o CRLF \o <<"a">> \o CRLF,
    <<"*", "1">> \o CRLF \o <<"$", "3">> \o CRLF \o <<"B", "A", "D">> \o CRLF,
    <<"*", "3">> \o CRLF \o <<"$", "3">> \o CRLF \o <<"S", "E", "T">> \o CRLF
                 \o <<"$", "1">> \o CRLF \o <<"k">> \o CRLF
                 \o <<"$", "2">> \o CRLF \o <<"v", "w">> \o CRLF,
    <<"*", "2">> \o CRLF \o <<"$", "3">> \o CRLF \o <<"G", "E", "T">> \o CRLF
                 \o <<"$", "1">> \o CRLF \o <<"k">> \o CRLF,
    <<"*", "3">> \o CRLF \o <<"$", "3">> \o CRLF \o <<"S", "E", "T">> \o CRLF
                 \o <<"$", "1">> \o CRLF \o <<"j">> \o CRLF
                 \o <<"$", "4">> \o CRLF \o <<"w", "x", "y", "z">> \o CRLF,
    <<"*", "0">> \o CRLF,
    <<"*", "1">> \o CRLF \o <<"$", "4">> \o CRLF \o <<"P", "I">> }

RECURSIVE PipeWires(_)
\* All concatenations of at most k pipelined chunks.
PipeWires(k) ==
  IF k = 0 THEN { <<>> }
  ELSE LET shorter == PipeWires(k - 1)
       IN shorter \cup { w \o c : w \in shorter, c \in PipeChunks }

At(d, p) == d[p + 1]

IsDigit(c) == c \in {"0", "1", "2", "3", "4", "5", "6", "7", "8", "9"}

DigitVal(c) ==
  CASE c = "0" -> 0 [] c = "1" -> 1 [] c = "2" -> 2 [] c = "3" -> 3
    [] c = "4" -> 4 [] c = "5" -> 5 [] c = "6" -> 6 [] c = "7" -> 7
    [] c = "8" -> 8 [] c = "9" -> 9

\* Conversion of an int to size_t (modular), and int arithmetic that wraps.
ToSize(x) == x % SizeMod

WrapInt(x) == ((x + IntHalf) % IntMod) - IntHalf

(* ------------------------------ state -------------------------------- *)

VARIABLES
  wire,     \* bytes the peer has sent that the caller has not yet read
  data,     \* RESPParser::data, the bytes of the input region [0, len)
  len,      \* RESPParser::len
  pos,      \* RESPParser::pos
  tokens,   \* the caller's token vector: views [off, n] into data
  ret,      \* value returned by the last try_parse_command (-1: none yet)
  start,    \* pos when the last try_parse_command was entered
  origin,   \* where the last call had to start: the end of the last command
            \* that a call returned, unmoved by calls that returned 0
  retry,    \* the last call followed a call that returned 0 and an Extend
  op,       \* last operation: "new", "extend", "parse"; "trap": the process
            \* was stopped in a call, on a signed overflow
  offset,   \* Arena: the cursor
  ptr,      \* Arena: what the last Allocate returned
  size,     \* Arena: the argument of the last Allocate
  before,   \* Arena: the cursor when the last Allocate was entered
  aop,      \* Arena: last operation: "new", "allocate", "clear"
  prev,     \* Arena: the last successful Allocate before the last call and
            \* after the last Clear: [ok, off, size]
  mem,      \* Arena: the bytes copied into the buffer, [0, offset)
  store,    \* keyspace: key bytes -> view [off, n] into the arena
  tx,       \* the connection's pending output bytes
  closing,  \* the connection is marked for teardown after the flush
  lp,       \* the parser loop: "idle", "loop", "done", "undefined"
  rets,     \* what the calls of this loop returned, the final 0 left out
  seen,     \* the token vectors handed to ProcessCommand, as bytes
  todo,     \* what the clients have still to do: events [c, seg, end]
  net,      \* per connection: bytes sent by the client, not yet read
  ready,    \* per connection: an edge-triggered read event is pending
  events,   \* the connections of the events epoll_wait returned, unhandled
  cst,      \* per connection: "open", "closed"
  why,      \* per connection: what tore it down ("" while it is not)
  peer,     \* per connection: "open", "closed" (FIN sent), "reset"
  rx,       \* per connection: ClientBuffer, the bytes data[0, len)
  out,      \* per connection: the bytes written to the client
  log,      \* the commands executed, in order: [c, t, resp, sent, fresh],
            \* fresh the number of bytes of the read that completed it
  stream,   \* per connection: the bytes read from the socket so far
  eaten,    \* per connection: number of bytes the parser has consumed so far
  flushed,  \* per connection: number of response-buffer bytes send() took
  prx,      \* per connection: parser.pos when the last parser loop ended
  lrx,      \* per connection: buf.len when the last parser loop ended
  listener, \* the listening socket: "open", "closed"
  proc,     \* the server process: "running", "dead"
  socks,    \* Socket handles: [st, fd_, moved], st "none", "live", "dead"
  closes,   \* per descriptor value: how many times close() was called on it
  nextfd    \* the descriptor the next socket() or accept() returns

parserVars == <<wire, data, len, pos, tokens, ret, start, origin, retry, op>>

arenaVars == <<offset, ptr, size, before, aop, prev>>

serverVars == <<mem, store, tx, closing, lp, rets, seen>>

loopVars ==
  <<todo, net, ready, events, cst, why, peer, rx, out, log, stream, eaten,
    flushed, prx, lrx, listener, proc>>

socketVars == <<socks, closes, nextfd>>

vars == <<parserVars, arenaVars, serverVars, loopVars, socketVars>>

(* --------------------------- RESPParser ------------------------------ *)

RECURSIVE DigitLoop(_, _, _, _, _)
\* The while loop of parse_int; ovf records a signed overflow of
\* result * 10 + digit (undefined behaviour; the value kept is the wrapped one).
DigitLoop(d, l, p, result, ovf) ==
  IF p < l /\ IsDigit(At(d, p))
  THEN LET r == result * 10 + DigitVal(At(d, p))
       IN DigitLoop(d, l, p + 1, WrapInt(r), ovf \/ r > IntMax \/ r < IntMin)
  ELSE [val |-> result, p |-> p, ovf |-> ovf]

parse_int(d, l, p) ==
  LET negative == p < l /\ At(d, p) = "-"
      r == DigitLoop(d, l, IF negative THEN p + 1 ELSE p, 0, FALSE)
  IN [val |-> IF negative THEN WrapInt(0 - r.val) ELSE r.val,
      p   |-> r.p,
      ovf |-> r.ovf \/ (negative /\ r.val = IntMin)]

\* The test `pos + 1 >= len || data[pos] != '\r' || data[pos + 1] != '\n'`.
NoCRLF(d, l, p) == p + 1 >= l \/ At(d, p) # CR \/ At(d, p + 1) # LF

\* Mutant of Rewind: the cursor is put back to the buffer start, not to start.
RewindToZero(st, ovf) == [ret |-> 0, pos |-> 0, tokens |-> <<>>, ovf |-> ovf]

\* `pos = start; tokens.clear(); return 0;`
Rewind(st, ovf) == [ret |-> 0, pos |-> st, tokens |-> <<>>, ovf |-> ovf]

\* Mutant of TooShort: the trailing CRLF is left out of the bounds test.
TooShortNoCRLF(p, str_len, l) == ToSize(p + ToSize(str_len)) > l

\* The bounds test `pos + str_len + 2 > len`: str_len is an int, converted to
\* size_t for the sum, which is taken modulo 2^SizeBits.
TooShort(p, str_len, l) == ToSize(ToSize(p + ToSize(str_len)) + 2) > l

\* Mutant of View: the view also covers the CRLF behind the data.
ViewWithCRLF(p, str_len) == [off |-> p, n |-> ToSize(str_len + 2)]

\* `tokens.emplace_back(data + pos, str_len)`: a view of str_len bytes at pos;
\* the length of a string_view is a size_t.
View(p, str_len) == [off |-> p, n |-> ToSize(str_len)]

\* Mutant of Skip: the cursor is not moved past the CRLF behind the data.
SkipNoCRLF(p, str_len) == ToSize(p + ToSize(str_len))

\* `pos += str_len + 2`: the sum is an int, converted to size_t for the add.
Skip(p, str_len) == ToSize(p + ToSize(WrapInt(str_len + 2)))

\* Mutant of Consumed: the cursor is returned, not the distance moved.
ConsumedFromZero(p, st) == ToSize(p)

\* `return pos - start` (size_t).
Consumed(p, st) == ToSize(p - st)

RECURSIVE BulkLoop(_, _, _, _, _, _, _, _)
\* The for loop of try_parse_command and the return that follows it.
BulkLoop(d, l, st, p, i, array_size, toks, ovf) ==
  IF ~(i < array_size)
  THEN [ret |-> Consumed(p, st), pos |-> p, tokens |-> toks, ovf |-> ovf]
  ELSE IF p >= l \/ At(d, p) # "$"
  THEN Rewind(st, ovf)
  ELSE LET n  == parse_int(d, l, p + 1)
           o2 == ovf \/ n.ovf
       IN IF NoCRLF(d, l, n.p)
          THEN Rewind(st, o2)
          ELSE IF TooShort(n.p + 2, n.val, l)
          THEN Rewind(st, o2)
          ELSE BulkLoop(d, l, st, Skip(n.p + 2, n.val), i + 1, array_size,
                        Append(toks, View(n.p + 2, n.val)),
                        o2 \/ n.val + 2 > IntMax)

try_parse_command(d, l, p) ==
  IF p >= l THEN Rewind(p, FALSE)
  ELSE IF At(d, p) # "*" THEN Rewind(p, FALSE)
  ELSE LET n == parse_int(d, l, p + 1)
       IN IF NoCRLF(d, l, n.p)
          THEN Rewind(p, n.ovf)
          ELSE BulkLoop(d, l, p, n.p + 2, 0, n.val, <<>>, n.ovf)

(* ------------------------------ Arena -------------------------------- *)

\* Addresses are offsets from the start of the arena's buffer; nullptr is
\* no such offset.
NullPtr == [null |-> TRUE, off |-> 0]

\* `buffer + offset`
BufferAt(o) == [null |-> FALSE, off |-> o]

\* Mutant of Allocate_: the bounds test is `>=`.
AllocateOffByOne(o, n) ==
  IF ToSize(o + n) >= Capacity
  THEN [ptr |-> NullPtr, offset |-> o]
  ELSE [ptr |-> BufferAt(o), offset |-> ToSize(o + n)]

\* Allocate(size) on cursor o: `offset + size` and `offset += size` are
\* size_t sums, taken modulo 2^SizeBits.
Allocate_(o, n) ==
  IF ToSize(o + n) > Capacity
  THEN [ptr |-> NullPtr, offset |-> o]
  ELSE [ptr |-> BufferAt(o), offset |-> ToSize(o + n)]

(* ------------------- command dispatcher (section 4.4) ---------------- *)

Letters ==
  << <<"a", "A">>, <<"b", "B">>, <<"c", "C">>, <<"d", "D">>, <<"e", "E">>,
     <<"f", "F">>, <<"g", "G">>, <<"h", "H">>, <<"i", "I">>, <<"j", "J">>,
     <<"k", "K">>, <<"l", "L">>, <<"m", "M">>, <<"n", "N">>, <<"o", "O">>,
     <<"p", "P">>, <<"q", "Q">>, <<"r", "R">>, <<"s", "S">>, <<"t", "T">>,
     <<"u", "U">>, <<"v", "V">>, <<"w", "W">>, <<"x", "X">>, <<"y", "Y">>,
     <<"z", "Z">> >>

\* The verb is matched case-insensitively.
Upper(c) ==
  IF \E i \in 1..Len(Letters) : Letters[i][1] = c
  THEN Letters[CHOOSE i \in 1..Len(Letters) : Letters[i][1] = c][2]
  ELSE c

UpperSeq(b) == [i \in 1..Len(b) |-> Upper(b[i])]

DigitChar(k) == <<"0", "1", "2", "3", "4", "5", "6", "7", "8", "9">>[k + 1]

RECURSIVE Decimal(_)
\* The ASCII decimal digits of n >= 0.
Decimal(n) ==
  IF n < 10 THEN <<DigitChar(n)>>
  ELSE Decimal(n \div 10) \o <<DigitChar(n % 10)>>

\* Response encoding: text frames, each terminated by CRLF.
SimpleString(b) == <<"+">> \o b \o CRLF

ErrorReply(b) == <<"-">> \o b \o CRLF

BulkString(b) == <<"$">> \o Decimal(Len(b)) \o CRLF \o b \o CRLF

NullBulk == <<"$", "-", "1">> \o CRLF

ArrayHeader(k) == <<"*">> \o Decimal(k) \o CRLF

ErrUnknown ==
  <<"E", "R", "R", " ", "u", "n", "k", "n", "o", "w", "n", " ",
    "c", "o", "m", "m", "a", "n", "d">>

ErrArgs ==
  <<"E", "R", "R", " ", "w", "r", "o", "n", "g", " ", "n", "u", "m", "b", "e",
    "r", " ", "o", "f", " ", "a", "r", "g", "u", "m", "e", "n", "t", "s">>

ErrMemory ==
  <<"E", "R", "R", " ", "o", "u", "t", " ", "o", "f", " ",
    "m", "e", "m", "o", "r", "y">>

\* The 11 bytes of `send(fd, "-ERR OOM\r\n", 11, 0)`: the 10 characters of
\* the literal and its terminating NUL.
ErrOOM == <<"-", "E", "R", "R", " ", "O", "O", "M">> \o CRLF \o <<"NUL">>

\* memcpy of the bytes v to the arena address at.
Copy(m, at, v) ==
  [i \in 1..Len(m) |->
     IF at < i /\ i <= at + Len(v) THEN v[i - at] ELSE m[i]]

\* The state a handler works on and leaves behind, with its response.
Served(resp, st) == [st EXCEPT !.resp = resp, !.sent = <<>>]

\* `if (!ptr) { send(fd, "-ERR OOM\r\n", 11, 0); return; }`: the handler
\* sends the error itself, straight to the socket, and returns; nothing goes
\* to the response buffer.
OutOfMemory(st) == [st EXCEPT !.resp = <<>>, !.sent = ErrOOM]

\* Mutant of StoreValue: the view is bound to the key, the bytes not copied.
StoreValueNoCopy(key, value, r, st) ==
  [st EXCEPT !.offset = r.offset,
             !.store = (key :> [off |-> r.ptr.off, n |-> Len(value)])
                       @@ st.store]

\* Mutant of StoreValue: the arena's cursor is left where it was.
StoreValueNoBump(key, value, r, st) ==
  [st EXCEPT !.mem = Copy(st.mem, r.ptr.off, value),
             !.store = (key :> [off |-> r.ptr.off, n |-> Len(value)])
                       @@ st.store]

\* `memcpy(ptr, value, n); store_[std::string(key)] = string_view(ptr, n);`
\* for the address r.ptr that Allocate(n) returned.
StoreValue(key, value, r, st) ==
  [st EXCEPT !.offset = r.offset,
             !.mem = Copy(st.mem, r.ptr.off, value),
             !.store = (key :> [off |-> r.ptr.off, n |-> Len(value)])
                       @@ st.store]

\* SET key value: copy the value into the arena, bind key -> arena view.
HandleSet(t, st) ==
  IF Len(t) < 3 THEN Served(ErrorReply(ErrArgs), st)
  ELSE LET r == Allocate_(st.offset, Len(t[3]))
       IN IF r.ptr.null THEN OutOfMemory(st)
          ELSE Served(SimpleString(<<"O", "K">>),
                      StoreValue(t[2], t[3], r, st))

\* GET key: the bytes of the current arena view, or the null bulk.
HandleGet(t, st) ==
  IF Len(t) < 2 THEN Served(ErrorReply(ErrArgs), st)
  ELSE IF t[2] \in DOMAIN st.store
  THEN LET v == st.store[t[2]]
       IN Served(BulkString(SubSeq(st.mem, v.off + 1, v.off + v.n)), st)
  ELSE Served(NullBulk, st)

\* The dispatcher, on a non-empty vector t of token bytes; t[1] is the verb.
Dispatch(t, st) ==
  LET verb == UpperSeq(t[1])
  IN CASE verb = <<"P", "I", "N", "G">> ->
            Served(IF Len(t) = 1 THEN SimpleString(<<"P", "O", "N", "G">>)
                   ELSE BulkString(t[2]), st)
       [] verb = <<"E", "C", "H", "O">> ->
            Served(IF Len(t) < 2 THEN ErrorReply(ErrArgs)
                   ELSE BulkString(t[2]), st)
       [] verb = <<"S", "E", "T">> -> HandleSet(t, st)
       [] verb = <<"G", "E", "T">> -> HandleGet(t, st)
       [] verb = <<"C", "O", "M", "M", "A", "N", "D">> ->
            Served(ArrayHeader(0), st)
       [] verb = <<"Q", "U", "I", "T">> ->
            [st EXCEPT !.resp = SimpleString(<<"O", "K">>), !.sent = <<>>,
                       !.closing = TRUE]
       [] OTHER -> Served(ErrorReply(ErrUnknown), st)

\* An arena buffer of Capacity bytes, value-initialised.
FreshMem == [i \in 1..Capacity |-> "NUL"]

FreshServer ==
  [resp |-> <<>>, sent |-> <<>>, mem |-> FreshMem, store |-> <<>>,
   offset |-> 0, closing |-> FALSE]

(* ------------------------- what clients send ------------------------- *)

RECURSIVE Bulks(_)
\* The bulk strings of the byte strings t, one after the other.
Bulks(t) == IF t = <<>> THEN <<>> ELSE BulkString(Head(t)) \o Bulks(Tail(t))

\* A client's request: an array of bulk strings.
Request(t) == ArrayHeader(Len(t)) \o Bulks(t)

\* The start of a command of nine bulks that is longer than the client
\* buffer: as many of its bulks of 11 bytes as exceed RXCAP.
Giant ==
  ArrayHeader(9)
    \o Bulks([i \in 1..(RXCAP \div 11 + 1) |-> <<"x", "x", "x", "x", "x">>])

\* What the clients of the server send, a segment at a time: commands,
\* pipelines of two commands, a command in two halves and a giant command.
Segments ==
  LET SetA  == Request(<<<<"S", "E", "T">>, <<"k">>, <<"a">>>>)
      SetBB == Request(<<<<"s", "e", "t">>, <<"k">>, <<"b", "b">>>>)
      Get   == Request(<<<<"G", "E", "T">>, <<"k">>>>)
      Bad   == Request(<<<<"B", "A", "D">>>>)
      Short == Request(<<<<"S", "E", "T">>, <<"k">>>>)
      Fill  == Request(<<<<"S", "E", "T">>, <<"j">>, <<"w", "x", "y", "z">>>>)
  IN { SetA, SetBB \o Get, Get, Bad \o Get, Short \o Get, Fill, SetA \o Get,
       SubSeq(SetA, 1, 13), SubSeq(SetA, 14, Len(SetA)), Giant }

\* What a client may do next: send a segment, close its end of the
\* connection, or have the connection reset.
ClientEvents ==
  { [c |-> c, seg |-> g, end |-> ""] : c \in Conns, g \in Segments }
    \cup { [c |-> c, seg |-> <<>>, end |-> e] :
             c \in Conns, e \in {"closed", "reset"} }

RECURSIVE Scripts(_)
\* What the clients do in all: at most k events, in the order they happen.
Scripts(k) ==
  IF k = 0 THEN { <<>> }
  ELSE LET shorter == Scripts(k - 1)
       IN shorter \cup { Append(sc, e) : sc \in shorter, e \in ClientEvents }

(* ----------------------------- actions ------------------------------- *)

\* RESPParser(d, l) over an empty input region, cursor 0; the peer's bytes
\* w are still on the wire.
ParserInit(w) ==
  /\ wire = w
  /\ data = <<>>
  /\ len = 0
  /\ pos = 0
  /\ tokens = <<>>
  /\ ret = -1
  /\ start = 0
  /\ origin = 0
  /\ retry = FALSE
  /\ op = "new"

\* No allocation is live: the arena is fresh or was cleared.
NoAllocation == [ok |-> FALSE, off |-> 0, size |-> 0]

\* A fresh arena: offset = 0.
ArenaInit ==
  /\ offset = 0
  /\ ptr = NullPtr
  /\ size = 0
  /\ before = 0
  /\ aop = "new"
  /\ prev = NoAllocation

\* A connection with nothing stored, nothing pending and no loop running.
ServerInit ==
  /\ mem = FreshMem
  /\ store = <<>>
  /\ tx = <<>>
  /\ closing = FALSE
  /\ lp = "idle"
  /\ rets = <<>>
  /\ seen = <<>>

Handles == 1..MaxHandles

\* The values close() can be called with: a descriptor, or -1.
FdValues == {-1} \cup (1..MaxFds)

\* No Socket has been constructed and no descriptor handed out.
SocketInit ==
  /\ socks = [h \in Handles |-> [st |-> "none", fd_ |-> -1, moved |-> FALSE]]
  /\ closes = [d \in FdValues |-> 0]
  /\ nextfd = 1

\* No client has anything to send; every connection is accepted and idle.
LoopInit ==
  /\ todo = <<>>
  /\ net = [c \in Conns |-> <<>>]
  /\ ready = [c \in Conns |-> FALSE]
  /\ events = {}
  /\ cst = [c \in Conns |-> "open"]
  /\ why = [c \in Conns |-> ""]
  /\ peer = [c \in Conns |-> "open"]
  /\ rx = [c \in Conns |-> <<>>]
  /\ out = [c \in Conns |-> <<>>]
  /\ log = <<>>
  /\ stream = [c \in Conns |-> <<>>]
  /\ eaten = [c \in Conns |-> 0]
  /\ flushed = [c \in Conns |-> 0]
  /\ prx = [c \in Conns |-> 0]
  /\ lrx = [c \in Conns |-> 0]
  /\ listener = "open"
  /\ proc = "running"

Init ==
  /\ \E w \in Wires(MaxChunks) : ParserInit(w)
  /\ ArenaInit
  /\ ServerInit
  /\ LoopInit
  /\ SocketInit

\* The caller reads k more bytes behind the bytes already in the buffer and
\* extends the parser's input: same buffer start, larger len.
Extend(k) ==
  /\ op # "trap"
  /\ k \in 1..Len(wire)
  /\ data' = data \o SubSeq(wire, 1, k)
  /\ wire' = SubSeq(wire, k + 1, Len(wire))
  /\ len' = len + k
  /\ op' = "extend"
  /\ UNCHANGED <<pos, tokens, ret, start, origin, retry>>
  /\ UNCHANGED <<arenaVars, serverVars, loopVars, socketVars>>

\* What a call in which a signed int overflowed (undefined behaviour) may
\* do: go on with the wrapped value, or trap.
Outcomes(ovf) == IF ovf THEN {"parse", "trap"} ELSE {"parse"}

\* The state the caller sees after a call that returned r.
Returned(r) ==
  /\ pos' = r.pos
  /\ tokens' = r.tokens
  /\ ret' = r.ret
  /\ start' = pos
  /\ origin' = (IF ret = 0 THEN origin ELSE pos)
  /\ retry' = (ret = 0 /\ op = "extend")

\* One call of try_parse_command(tokens) by the caller.
Parse ==
  LET r == try_parse_command(data, len, pos)
  IN /\ op # "trap"
     /\ \E o \in Outcomes(r.ovf) :
          /\ op' = o
          /\ IF o = "trap"
             THEN UNCHANGED <<pos, tokens, ret, start, origin, retry>>
             ELSE Returned(r)
     /\ UNCHANGED <<wire, data, len>>
     /\ UNCHANGED <<arenaVars, serverVars, loopVars, socketVars>>

Next ==
  \/ \E k \in 1..Len(wire) : Extend(k)
  \/ Parse

Spec == Init /\ [][Next]_vars

\* One call of Allocate(n), for any n of type size_t.
Allocate(n) ==
  LET r == Allocate_(offset, n)
  IN /\ ptr' = r.ptr
     /\ offset' = r.offset
     /\ size' = n
     /\ before' = offset
     /\ aop' = "allocate"
     /\ prev' = (IF aop = "allocate" /\ ~ptr.null
                 THEN [ok |-> TRUE, off |-> ptr.off, size |-> size]
                 ELSE IF aop = "allocate" THEN prev ELSE NoAllocation)
     /\ UNCHANGED <<parserVars, serverVars, loopVars, socketVars>>

\* Clear(): the offset is reset to 0.
Clear ==
  /\ offset' = 0
  /\ aop' = "clear"
  /\ prev' = NoAllocation
  /\ UNCHANGED <<ptr, size, before>>
  /\ UNCHANGED <<parserVars, serverVars, loopVars, socketVars>>

InitArena ==
  ParserInit(<<>>) /\ ArenaInit /\ ServerInit /\ LoopInit /\ SocketInit

NextArena ==
  \/ \E n \in 0..(SizeMod - 1) : Allocate(n)
  \/ Clear

SpecArena == InitArena /\ [][NextArena]_vars

\* Mutant of AppendOutput: the response is put in front of the pending bytes.
PrependOutput(buf, resp) == resp \o buf

\* `responseBuffer.append(...)`: a response goes behind the pending bytes.
AppendOutput(buf, resp) == buf \o resp

\* The bytes of the views toks, read from the buffer d.
TokenBytes(d, toks) ==
  [i \in 1..Len(toks) |-> SubSeq(d, toks[i].off + 1, toks[i].off + toks[i].n)]

\* `RESPParser parser(buffer, buffer_len)` over a buffer that holds all the
\* bytes w of one read, and an empty token vector.
InitPipe ==
  /\ \E w \in PipeWires(MaxChunks) :
        /\ wire = <<>> /\ data = w /\ len = Len(w) /\ pos = 0
        /\ tokens = <<>> /\ ret = -1 /\ start = 0 /\ origin = 0
        /\ retry = FALSE /\ op = "new"
  /\ ArenaInit
  /\ mem = FreshMem /\ store = <<>> /\ tx = <<>> /\ closing = FALSE
  /\ lp = "loop" /\ rets = <<>> /\ seen = <<>>
  /\ LoopInit
  /\ SocketInit

\* One iteration of the pipelining loop: try_parse_command; on 0 break;
\* otherwise ProcessCommand(tokens) and tokens.clear().  ProcessCommand on
\* an empty vector, or on a view outside the buffer, is outside the
\* dispatcher's contract: nothing is said about what follows.
LoopIter ==
  /\ lp = "loop"
  /\ LET r == try_parse_command(data, len, pos)
         inside == \A i \in 1..Len(r.tokens) :
                      r.tokens[i].off + r.tokens[i].n <= len
     IN /\ pos' = r.pos
        /\ ret' = r.ret
        /\ start' = pos
        /\ origin' = (IF ret = 0 THEN origin ELSE pos)
        /\ retry' = FALSE
        /\ op' = "parse"
        /\ IF r.ret = 0
           THEN /\ lp' = "done"
                /\ tokens' = r.tokens
                /\ UNCHANGED <<mem, store, tx, closing, rets, seen, offset, out>>
           ELSE IF r.tokens = <<>> \/ ~inside
           THEN /\ lp' = "undefined"
                /\ tokens' = r.tokens
                /\ rets' = Append(rets, r.ret)
                /\ seen' = Append(seen, <<>>)
                /\ UNCHANGED <<mem, store, tx, closing, offset, out>>
           ELSE LET t == TokenBytes(data, r.tokens)
                    d == Dispatch(t, [resp |-> <<>>, sent |-> <<>>,
                                      mem |-> mem, store |-> store,
                                      offset |-> offset, closing |-> closing])
                IN /\ tx' = AppendOutput(tx, d.resp)
                   /\ out' = [out EXCEPT ![1] = @ \o d.sent]
                   /\ mem' = d.mem
                   /\ store' = d.store
                   /\ offset' = d.offset
                   /\ closing' = d.closing
                   /\ tokens' = <<>>
                   /\ rets' = Append(rets, r.ret)
                   /\ seen' = Append(seen, t)
                   /\ lp' = "loop"
  /\ UNCHANGED <<wire, data, len, ptr, size, before, aop, prev, socketVars>>
  /\ UNCHANGED <<todo, net, ready, events, cst, why, peer, rx, log, stream,
                 eaten, flushed, prx, lrx, listener, proc>>

NextPipe == LoopIter

SpecPipe == InitPipe /\ [][NextPipe]_vars

(* ------------------------------ Socket ------------------------------- *)

\* `other.fd_ = -1` in the move constructor: the moved-from handle, without
\* the assignment.
MovedFromKeepsFd(other) == [other EXCEPT !.moved = TRUE]

\* `other.fd_ = -1` in the move constructor: the moved-from handle.
MovedFrom(other) == [other EXCEPT !.fd_ = -1, !.moved = TRUE]

\* `~Socket()`, without the test: close(fd_) whatever fd_ is.
DestructorAlwaysCloses(fd, cl) == [cl EXCEPT ![fd] = @ + 1]

\* `~Socket() { if (fd_ != -1) close(fd_); }`: the close() calls afterwards.
Destructor(fd, cl) == IF fd # -1 THEN [cl EXCEPT ![fd] = @ + 1] ELSE cl

\* `Socket client(accept(server_fd, ...))`, `Socket(raw_fd)`: a handle built
\* on what socket() or accept() returned, a new descriptor or -1 on failure;
\* a default constructed Socket has fd_ = -1 as well.
Construct(h) ==
  /\ socks[h].st = "none"
  /\ \E fd \in {-1, nextfd} :
        /\ fd # -1 => nextfd <= MaxFds
        /\ socks' = [socks EXCEPT ![h] = [st |-> "live", fd_ |-> fd,
                                           moved |-> FALSE]]
        /\ nextfd' = (IF fd = -1 THEN nextfd ELSE nextfd + 1)
  /\ UNCHANGED closes
  /\ UNCHANGED <<parserVars, arenaVars, serverVars, loopVars>>

\* `Socket s2 = std::move(s1)`: s2 is h, s1 is other (a live handle, which
\* may itself be moved-from).
MoveConstruct(h, other) ==
  /\ h # other
  /\ socks[h].st = "none"
  /\ socks[other].st = "live"
  /\ socks' = [socks EXCEPT
                 ![h] = [st |-> "live", fd_ |-> socks[other].fd_,
                         moved |-> FALSE],
                 ![other] = MovedFrom(socks[other])]
  /\ UNCHANGED <<closes, nextfd>>
  /\ UNCHANGED <<parserVars, arenaVars, serverVars, loopVars>>

\* The handle h goes out of scope: its destructor runs.
Destroy(h) ==
  /\ socks[h].st = "live"
  /\ closes' = Destructor(socks[h].fd_, closes)
  /\ socks' = [socks EXCEPT ![h].st = "dead"]
  /\ UNCHANGED nextfd
  /\ UNCHANGED <<parserVars, arenaVars, serverVars, loopVars>>

InitSocket ==
  ParserInit(<<>>) /\ ArenaInit /\ ServerInit /\ LoopInit /\ SocketInit

NextSocket ==
  \/ \E h \in Handles : Construct(h)
  \/ \E h, other \in Handles : MoveConstruct(h, other)
  \/ \E h \in Handles : Destroy(h)

SpecSocket == InitSocket /\ [][NextSocket]_vars

(* ---------------------------- event loop ----------------------------- *)

\* Mutant of Read: the read takes every byte that has arrived, whatever
\* room the buffer has left.
ReadPastEnd(c) ==
  IF peer[c] = "reset" THEN [bytes |-> -1, errno |-> "ECONNRESET"]
  ELSE IF net[c] # <<>> THEN [bytes |-> Len(net[c]), errno |-> ""]
  ELSE IF peer[c] = "closed" THEN [bytes |-> 0, errno |-> ""]
  ELSE [bytes |-> -1, errno |-> "EAGAIN"]

\* `read(fd, buf.data + buf.len, RXCAP - buf.len)` on the non-blocking socket
\* of connection c: the number of bytes read, 0 at the end of the stream, or
\* -1 with the error.
Read(c) ==
  LET space == RXCAP - Len(rx[c])
  IN IF peer[c] = "reset" THEN [bytes |-> -1, errno |-> "ECONNRESET"]
     ELSE IF net[c] # <<>>
     THEN [bytes |-> IF Len(net[c]) < space THEN Len(net[c]) ELSE space,
           errno |-> ""]
     ELSE IF peer[c] = "closed" THEN [bytes |-> 0, errno |-> ""]
     ELSE [bytes |-> -1, errno |-> "EAGAIN"]

\* Mutant of Compact: buf.len is set, the bytes are not moved.
CompactNoShift(d, l, consumed) == SubSeq(d, 1, l - consumed)

\* Mutant of Compact: the unparsed bytes are dropped.
CompactDropsTail(d, l, consumed) == <<>>

\* `memmove(buf.data, buf.data + consumed, remaining); buf.len = remaining;`
Compact(d, l, consumed) == SubSeq(d, consumed + 1, l)

\* The compacted unconsumed length equals RXCAP: a single command would not
\* fit, the connection is torn down.
BufferFull(b) == Len(b) = RXCAP

\* What `send(fd, responseBuffer.data(), responseBuffer.size(), 0)` may
\* return on a non-blocking socket: all the bytes, a part of them, or -1
\* with EAGAIN (no byte taken).
SendResults(b) == { Len(b), Len(b) \div 2, -1 }

NoOutput == [tx |-> <<>>, direct |-> <<>>, cmds |-> <<>>]

\* Mutant of ParserLoop: one command is processed per event, there is no loop.
ParserLoopOnce(d, l, p, st, acc) ==
  LET r == try_parse_command(d, l, p)
  IN IF r.ret = 0 \/ r.tokens = <<>>
     THEN [pos |-> r.pos, st |-> st, acc |-> acc, undef |-> FALSE]
     ELSE LET t == TokenBytes(d, r.tokens)
              h == Dispatch(t, st)
          IN [pos |-> r.pos, st |-> h, undef |-> FALSE,
              acc |-> [tx |-> AppendOutput(acc.tx, h.resp),
                       direct |-> acc.direct \o h.sent,
                       cmds |-> Append(acc.cmds, [t |-> t, resp |-> h.resp,
                                                  sent |-> h.sent])]]

\* Every view of toks lies inside the buffer of length l.
Inside(toks, l) == \A i \in 1..Len(toks) : toks[i].off + toks[i].n <= l

RECURSIVE ParserLoop(_, _, _, _, _)
\* `ProcessCommand(tokens)` has answered the token bytes t, leaving the
\* server as h; `tokens.clear()`, and the loop goes on at cursor p.
Answered(d, l, p, acc, t, h) ==
  ParserLoop(d, l, p, h,
             [tx |-> AppendOutput(acc.tx, h.resp),
              direct |-> acc.direct \o h.sent,
              cmds |-> Append(acc.cmds, [t |-> t, resp |-> h.resp,
                                         sent |-> h.sent])])

\* The body of the loop on what try_parse_command returned (r): `if
\* (consumed == 0) break;`, otherwise ProcessCommand(tokens), which is
\* undefined on an empty vector and on views outside the buffer.
LoopBody(d, l, st, acc, r) ==
  IF r.ret = 0
  THEN [pos |-> r.pos, st |-> st, acc |-> acc, undef |-> FALSE]
  ELSE IF r.tokens = <<>> \/ ~Inside(r.tokens, l)
  THEN [pos |-> r.pos, st |-> st, acc |-> acc, undef |-> TRUE]
  ELSE Answered(d, l, r.pos, acc, TokenBytes(d, r.tokens),
                Dispatch(TokenBytes(d, r.tokens), st))

\* The pipelining loop over the buffer d[0, l) from cursor p on: break when
\* try_parse_command returns 0, otherwise ProcessCommand(tokens).  acc holds
\* the response buffer, the bytes sent directly and the commands executed.
ParserLoop(d, l, p, st, acc) ==
  LoopBody(d, l, st, acc, try_parse_command(d, l, p))

\* cleanup_client(fd): remove from epoll, erase the socket and the buffer.
cleanup_client(c, reason) ==
  /\ cst' = [cst EXCEPT ![c] = "closed"]
  /\ why' = [why EXCEPT ![c] = reason]
  /\ rx' = [rx EXCEPT ![c] = <<>>]

\* The server has started: the arena is fresh, the keyspace empty, the
\* listener open; the clients are connected and accepted, each with an empty
\* ClientBuffer.
InitServer ==
  /\ ParserInit(<<>>) /\ ArenaInit /\ ServerInit /\ SocketInit
  /\ todo \in Scripts(MaxSegs)
  /\ net = [c \in Conns |-> <<>>]
  /\ ready = [c \in Conns |-> FALSE]
  /\ events = {}
  /\ cst = [c \in Conns |-> "open"]
  /\ why = [c \in Conns |-> ""]
  /\ peer = [c \in Conns |-> "open"]
  /\ rx = [c \in Conns |-> <<>>]
  /\ out = [c \in Conns |-> <<>>]
  /\ log = <<>>
  /\ stream = [c \in Conns |-> <<>>]
  /\ eaten = [c \in Conns |-> 0]
  /\ flushed = [c \in Conns |-> 0]
  /\ prx = [c \in Conns |-> 0]
  /\ lrx = [c \in Conns |-> 0]
  /\ listener = "open"
  /\ proc = "running"

\* A client sends its next segment: the bytes arrive in the socket of its
\* connection, which becomes readable (an edge).
ClientSend ==
  /\ proc = "running" /\ todo # <<>> /\ Head(todo).end = ""
  /\ LET c == Head(todo).c
     IN /\ peer[c] = "open"
        /\ net' = [net EXCEPT ![c] = @ \o Head(todo).seg]
        /\ ready' = [ready EXCEPT ![c] = TRUE]
  /\ todo' = Tail(todo)
  /\ UNCHANGED <<events, cst, why, peer, rx, out, log, stream, eaten, flushed, prx, lrx,
                 listener, proc>>
  /\ UNCHANGED <<parserVars, arenaVars, serverVars, socketVars>>

\* A client closes its end of the connection, or the connection is reset:
\* the socket becomes readable.
ClientClose ==
  /\ proc = "running" /\ todo # <<>> /\ Head(todo).end # ""
  /\ LET c == Head(todo).c
     IN /\ peer[c] = "open"
        /\ peer' = [peer EXCEPT ![c] = Head(todo).end]
        /\ net' = [net EXCEPT
                     ![c] = IF Head(todo).end = "reset" THEN <<>> ELSE @]
        /\ ready' = [ready EXCEPT ![c] = TRUE]
  /\ todo' = Tail(todo)
  /\ UNCHANGED <<events, cst, why, rx, out, log, stream, eaten, flushed, prx, lrx,
                 listener, proc>>
  /\ UNCHANGED <<parserVars, arenaVars, serverVars, socketVars>>

\* epoll_wait() returns the connections that have become readable.
Wait ==
  /\ proc = "running" /\ events = {}
  /\ \E c \in Conns : ready[c] /\ cst[c] = "open"
  /\ events' = { c \in Conns : ready[c] /\ cst[c] = "open" }
  /\ ready' = [c \in Conns |-> ready[c] /\ cst[c] # "open"]
  /\ UNCHANGED <<todo, net, cst, why, peer, rx, out, log, stream, eaten,
                 flushed, prx, lrx, listener, proc>>
  /\ UNCHANGED <<parserVars, arenaVars, serverVars, socketVars>>

\* The end of the handler: the loop has run over the n new bytes and what
\* was buffered (run), `memmove` leaves rest, and the one send() of the
\* response buffer takes w bytes (-1: none).
Respond(c, n, run, rest, w) ==
  /\ net' = [net EXCEPT ![c] = SubSeq(@, n + 1, Len(@))]
  /\ stream' = [stream EXCEPT ![c] = @ \o SubSeq(net[c], 1, n)]
  /\ eaten' = [eaten EXCEPT ![c] = @ + run.pos]
  /\ mem' = run.st.mem
  /\ store' = run.st.store
  /\ offset' = run.st.offset
  /\ log' = log \o [i \in 1..Len(run.acc.cmds) |->
                      [c |-> c, t |-> run.acc.cmds[i].t,
                       resp |-> run.acc.cmds[i].resp,
                       sent |-> run.acc.cmds[i].sent, fresh |-> n]]
  /\ out' = [out EXCEPT ![c] = @ \o run.acc.direct
                                 \o SubSeq(run.acc.tx, 1, w)]
  /\ flushed' = [flushed EXCEPT ![c] = @ + (IF w < 0 THEN 0 ELSE w)]
  /\ prx' = [prx EXCEPT ![c] = run.pos]
  /\ lrx' = [lrx EXCEPT ![c] = Len(rx[c]) + n]
  /\ IF run.undef
     THEN /\ cst' = [cst EXCEPT ![c] = "undefined"]
          /\ rx' = [rx EXCEPT ![c] = rest]
          /\ UNCHANGED why
     ELSE IF BufferFull(rest) THEN cleanup_client(c, "full")
     ELSE IF run.st.closing THEN cleanup_client(c, "quit")
     ELSE /\ rx' = [rx EXCEPT ![c] = rest]
          /\ UNCHANGED <<cst, why>>

\* The loop has run over the buffer d: compaction, then the send.
OnParsed(c, n, d, run) ==
  \E w \in SendResults(run.acc.tx) :
     Respond(c, n, run, Compact(d, Len(d), run.pos), w)

\* read() has returned r: `if (bytes <= 0) { cleanup_client(fd); return; }`,
\* otherwise the parser loop over the buffer with the new bytes behind it.
OnRead(c, r) ==
  IF r.bytes <= 0
  THEN /\ cleanup_client(c, IF r.bytes = 0 THEN "eof" ELSE r.errno)
       /\ UNCHANGED <<net, out, log, stream, eaten, flushed, prx, lrx, mem, store,
                      offset>>
  ELSE OnParsed(c, r.bytes, rx[c] \o SubSeq(net[c], 1, r.bytes),
                ParserLoop(rx[c] \o SubSeq(net[c], 1, r.bytes),
                           Len(rx[c]) + r.bytes, 0,
                           [resp |-> <<>>, sent |-> <<>>, mem |-> mem,
                            store |-> store, offset |-> offset,
                            closing |-> FALSE], NoOutput))

\* The event of connection c: one read into the tail of its buffer; on
\* bytes <= 0 cleanup_client and return; otherwise the parser loop over the
\* buffer, the compaction, the teardown of a connection whose buffer is full
\* (or that sent QUIT), and one send of the response buffer, whose result is
\* not looked at: the buffer is a local of the handler.
HandleClient(c) ==
  /\ proc = "running" /\ c \in events
  /\ events' = events \ {c}
  /\ OnRead(c, Read(c))
  /\ UNCHANGED <<todo, ready, peer, listener, proc>>
  /\ UNCHANGED <<parserVars, ptr, size, before, aop, prev, socketVars>>
  /\ UNCHANGED <<tx, closing, lp, rets, seen>>

\* A signal (SIGINT, SIGTERM) arrives: no handler is installed and the loop
\* is `while (true)`, so the process ends where it is.
Signal ==
  /\ proc = "running"
  /\ proc' = "dead"
  /\ UNCHANGED <<todo, net, ready, events, cst, why, peer, rx, out, log,
                 stream, eaten, flushed, prx, lrx, listener>>
  /\ UNCHANGED <<parserVars, arenaVars, serverVars, socketVars>>

NextServer ==
  \/ ClientSend
  \/ ClientClose
  \/ Wait
  \/ \E c \in Conns : HandleClient(c)
  \/ Signal

SpecServer == InitServer /\ [][NextServer]_vars

(* ------------------- the grammar of section 4.2 ---------------------- *)
(* command = '*' count CRLF ( bulk )^count                                 *)
(* bulk    = '$' length CRLF <length bytes> CRLF                           *)
(* count and length are ASCII decimal, >= 0.  These operators read a byte  *)
(* sequence d on their own, with exact integers; they share nothing with   *)
(* the parser above.                                                       *)

RECURSIVE NumEnd(_, _)
\* The offset behind the run of digits that starts at offset p.
NumEnd(d, p) == IF p < Len(d) /\ IsDigit(At(d, p)) THEN NumEnd(d, p + 1) ELSE p

RECURSIVE NumVal(_, _, _)
\* The decimal value of the digits d[p .. q).
NumVal(d, p, q) ==
  IF q <= p THEN 0 ELSE NumVal(d, p, q - 1) * 10 + DigitVal(At(d, q - 1))

CRLFAt(d, q) == q + 2 <= Len(d) /\ At(d, q) = CR /\ At(d, q + 1) = LF

NoCommand == [ok |-> FALSE, end |-> 0, bulks |-> <<>>]

RECURSIVE GrammarBulks(_, _, _, _)
\* k bulks from offset p on: whether they are all there, where they end, and
\* the data bytes of each.
GrammarBulks(d, p, k, acc) ==
  IF k = 0 THEN [ok |-> TRUE, end |-> p, bulks |-> acc]
  ELSE IF ~(p < Len(d) /\ At(d, p) = "$") THEN NoCommand
  ELSE LET q == NumEnd(d, p + 1)
       IN IF ~(q > p + 1 /\ CRLFAt(d, q)) THEN NoCommand
          ELSE LET n == NumVal(d, p + 1, q)
                   b == q + 2
               IN IF ~(b + n + 2 <= Len(d) /\ CRLFAt(d, b + n)) THEN NoCommand
                  ELSE GrammarBulks(d, b + n + 2, k - 1,
                                    Append(acc, SubSeq(d, b + 1, b + n)))

\* The valid command that starts at offset p of d and lies entirely in d.
GrammarCommand(d, p) ==
  IF ~(p < Len(d) /\ At(d, p) = "*") THEN NoCommand
  ELSE LET q == NumEnd(d, p + 1)
       IN IF ~(q > p + 1 /\ CRLFAt(d, q)) THEN NoCommand
          ELSE GrammarBulks(d, q + 2, NumVal(d, p + 1, q), <<>>)

\* A header '-' digits CRLF behind its marker byte at offset p.
NegativeHeader(d, p) ==
  /\ p + 1 < Len(d)
  /\ At(d, p + 1) = "-"
  /\ NumEnd(d, p + 2) > p + 2
  /\ CRLFAt(d, NumEnd(d, p + 2))

RECURSIVE NegativeBulkIn(_, _, _)
\* Among the next k bulks from offset p on, valid bulks are followed by a bulk
\* header with a negative length.
NegativeBulkIn(d, p, k) ==
  IF k = 0 \/ ~(p < Len(d) /\ At(d, p) = "$") THEN FALSE
  ELSE IF NegativeHeader(d, p) THEN TRUE
  ELSE LET g == GrammarBulks(d, p, 1, <<>>)
       IN g.ok /\ NegativeBulkIn(d, g.end, k - 1)

\* The command at offset p of d has a valid array header and, among the bulks
\* it announces, a bulk header with a negative length.
NegativeBulkCommand(d, p) ==
  /\ p < Len(d) /\ At(d, p) = "*"
  /\ LET q == NumEnd(d, p + 1)
     IN /\ q > p + 1 /\ CRLFAt(d, q)
        /\ NegativeBulkIn(d, q + 2, NumVal(d, p + 1, q))

\* The bytes at offset p of d are an array header with a negative count.
NegativeCountCommand(d, p) ==
  p < Len(d) /\ At(d, p) = "*" /\ NegativeHeader(d, p)

\* The bytes a view denotes.
ViewBytes(v) == SubSeq(data, v.off + 1, v.off + v.n)

\* The command the last call had to decode, and the one of which the input
\* so far may hold only a part.
Cmd == GrammarCommand(data, start)

CmdOnWire == GrammarCommand(data \o wire, start)

(* ------------------------------ claims ------------------------------- *)

\* C1 (as stated): whenever try_parse_command returns 0, the cursor equals
\* its value before the call and the token vector is empty.
C1_ZeroReturnRestores ==
  (op = "parse" /\ ret = 0) => (pos = start /\ tokens = <<>>)

\* C2: a valid command of L bytes that starts at the cursor and is entirely
\* present makes try_parse_command return L and advance the cursor by L.
C2_ValidCommandConsumed ==
  (op = "parse" /\ Cmd.ok) =>
     (ret = Cmd.end - start /\ pos = start + (Cmd.end - start))

\* C2 witness: a call has decoded a command of two bulks that does not start
\* at offset 0.
C2_Witness ==
  op = "parse" /\ Cmd.ok /\ Len(Cmd.bulks) = 2 /\ start > 0 /\ ret > 0

\* C3: after a successful parse of a valid command of count N the token
\* vector holds exactly N views, the i-th denoting the data bytes of the i-th
\* bulk; nothing of an earlier call is kept.
C3_TokensAreBulks ==
  (op = "parse" /\ Cmd.ok) =>
     /\ Len(tokens) = Len(Cmd.bulks)
     /\ \A i \in 1..Len(tokens) : ViewBytes(tokens[i]) = Cmd.bulks[i]

\* C3 witness: a second command was decoded after a first one that had
\* tokens, and its two tokens differ.
C3_Witness ==
  /\ op = "parse" /\ Cmd.ok /\ start > 4
  /\ Len(tokens) = 2
  /\ ViewBytes(tokens[1]) # ViewBytes(tokens[2])

\* C4 (as stated): after every call that returns non-zero, every view lies
\* within the input region: 0 <= off and off + n <= len.
C4_ViewsInsideInput ==
  (op = "parse" /\ ret # 0) =>
     \A i \in 1..Len(tokens) :
        tokens[i].off >= 0 /\ tokens[i].off + tokens[i].n <= len

\* C5: on a strict prefix of a valid command try_parse_command returns 0 and
\* leaves the cursor unchanged; on the full command it returns its length.
C5_PrefixesReturnZero ==
  (op = "parse" /\ CmdOnWire.ok) =>
     IF CmdOnWire.end <= len
     THEN ret = CmdOnWire.end - start /\ pos = CmdOnWire.end
     ELSE ret = 0 /\ pos = start

\* C5 witness: a call ran on a prefix cut between the CR and the LF behind
\* bulk data, in a command that does not start at offset 0.
C5_Witness ==
  /\ op = "parse" /\ CmdOnWire.ok /\ CmdOnWire.end = len + 1
  /\ Len(CmdOnWire.bulks) > 0 /\ start > 0 /\ ret = 0

\* C6: a call that follows a call that returned 0 and an extension of the
\* input, with the whole command now present where the failed call started,
\* starts there and returns the command's length and its tokens.
C6_Restartable ==
  (op = "parse" /\ retry /\ GrammarCommand(data, origin).ok) =>
     LET g == GrammarCommand(data, origin)
     IN /\ start = origin
        /\ ret = g.end - origin
        /\ pos = g.end
        /\ Len(tokens) = Len(g.bulks)
        /\ \A i \in 1..Len(tokens) : ViewBytes(tokens[i]) = g.bulks[i]

\* C6 witness: the retried call decoded a command with tokens that starts
\* behind an earlier command.
C6_Witness ==
  /\ op = "parse" /\ retry /\ origin > 0
  /\ GrammarCommand(data, origin).ok /\ Len(tokens) > 0 /\ ret > 0

\* C7 (as stated): a command with a bulk header of negative length is never
\* accepted: the call returns 0, restores the cursor and yields no token.
C7_NegativeLengthRejected ==
  (op = "parse" /\ NegativeBulkCommand(data, start)) =>
     (ret = 0 /\ pos = start /\ tokens = <<>>)

\* C8 (as stated): an array header with a negative count is not recognized:
\* the call returns 0 and restores the cursor.
C8_NegativeCountRejected ==
  (op = "parse" /\ NegativeCountCommand(data, start)) =>
     (ret = 0 /\ pos = start)

\* C21 (as stated): try_parse_command returns non-zero only when the data
\* bytes of each bulk are immediately followed by CR LF: behind every token
\* that lies in the input with two more bytes, those two bytes are CR LF.
C21_BulkDataEndsWithCRLF ==
  (op = "parse" /\ ret # 0) =>
     \A i \in 1..Len(tokens) :
        (tokens[i].off + tokens[i].n + 2 <= len) =>
           CRLFAt(data, tokens[i].off + tokens[i].n)

\* C26 (as stated): after every call the cursor satisfies 0 <= pos <= len
\* and is not before its value at entry, and a non-zero return value is the
\* distance the cursor moved, with 0 < r <= len - (pos at entry).
C26_CursorMonotone ==
  (op = "parse") =>
     /\ 0 <= pos /\ pos <= len
     /\ start <= pos
     /\ ret # 0 => (ret = pos - start /\ 0 < ret /\ ret <= len - start)

\* The byte behind the marker at offset p is a minus sign.
Minus(d, p) == p + 1 < Len(d) /\ At(d, p + 1) = "-"

\* The decimal value written behind the marker at offset p.
Written(d, p) == NumVal(d, p + 1, NumEnd(d, p + 1))

RECURSIVE WrittenLengths(_, _, _, _)
\* The tokens toks[i ..] start behind the bulk headers found from offset p
\* on and have the lengths written there; headers with a minus sign are not
\* looked at, nor what follows them.
WrittenLengths(d, p, toks, i) ==
  IF i > Len(toks) THEN TRUE
  ELSE IF ~(p < Len(d) /\ At(d, p) = "$") THEN FALSE
  ELSE IF Minus(d, p) THEN TRUE
  ELSE /\ toks[i].off = NumEnd(d, p + 1) + 2
       /\ toks[i].n = Written(d, p)
       /\ WrittenLengths(d, NumEnd(d, p + 1) + 2 + Written(d, p) + 2, toks,
                         i + 1)

\* C27 (as stated): after every successful parse the number of tokens is the
\* decimal value written in the count header and each token's length is the
\* decimal value written in its bulk header: no header is accepted at a
\* wrapped value.
C27_HeadersAtWrittenValue ==
  (op = "parse" /\ ret # 0 /\ ~Minus(data, start)) =>
     /\ Len(tokens) = Written(data, start)
     /\ WrittenLengths(data, NumEnd(data, start + 1) + 2, tokens, 1)

\* C10 (as stated): Allocate(n) on cursor o returns buffer + o and moves the
\* cursor to o + n if o + n <= C; otherwise it returns null and leaves the
\* cursor unchanged.  A request larger than the capacity returns null.
C10_AllocateTwoOutcomes ==
  (aop = "allocate") =>
     /\ IF before + size <= Capacity
        THEN ptr = BufferAt(before) /\ offset = before + size
        ELSE ptr = NullPtr /\ offset = before
     /\ (size > Capacity => ptr = NullPtr)

\* C11 (as stated): of two consecutive successful allocations A1 = Allocate(n1)
\* and A2 = Allocate(n2) with no Clear in between, A2 = A1 + n1, and the
\* ranges [A1, A1 + n1) and [A2, A2 + n2) do not overlap.
C11_Contiguous ==
  (aop = "allocate" /\ ~ptr.null /\ prev.ok) =>
     /\ ptr.off = prev.off + prev.size
     /\ \A b \in prev.off..(prev.off + prev.size - 1) :
           ~(ptr.off <= b /\ b < ptr.off + size)

\* C12 (as stated): on a fresh or cleared arena Allocate(Capacity) succeeds;
\* after it every Allocate(n) with n >= 1 fails until Clear; Clear sets the
\* cursor to 0.
C12_ExhaustionAndReset ==
  /\ (aop = "allocate" /\ ~prev.ok /\ before = 0 /\ size = Capacity) =>
        (ptr = BufferAt(0) /\ offset = Capacity)
  /\ (aop = "allocate" /\ prev.ok /\ prev.off = 0 /\ prev.size = Capacity
        /\ size >= 1) => (ptr = NullPtr /\ offset = before)
  /\ (aop = "clear") => offset = 0

\* C22 (as stated): after any sequence of Allocate(n), n any size_t value,
\* and Clear(), the cursor satisfies 0 <= offset <= Capacity, and the ranges
\* returned since the last Clear (the last one and the successful one before
\* it) lie inside [buffer, buffer + offset).
C22_CursorInvariant ==
  /\ 0 <= offset /\ offset <= Capacity
  /\ (aop = "allocate" /\ ~ptr.null) => ptr.off + size <= offset
  /\ (aop = "allocate" /\ prev.ok) => prev.off + prev.size <= offset

RECURSIVE GrammarPipeline(_, _, _)
\* The buffer d from offset p on as a sequence of whole valid commands.
GrammarPipeline(d, p, acc) ==
  IF p = Len(d) THEN [ok |-> TRUE, cmds |-> acc]
  ELSE LET g == GrammarCommand(d, p)
       IN IF g.ok
          THEN GrammarPipeline(d, g.end, Append(acc, [len |-> g.end - p,
                                                      bulks |-> g.bulks]))
          ELSE [ok |-> FALSE, cmds |-> <<>>]

Pipeline == GrammarPipeline(data, 0, <<>>)

RECURSIVE Responses(_, _, _, _)
\* The responses of the commands cmds[i .. k], in order, from server state st:
\* for each command the bytes the dispatcher answers it with.
Responses(cmds, i, k, st) ==
  IF i > k THEN <<>>
  ELSE LET d == Dispatch(cmds[i].bulks, st)
       IN d.resp \o d.sent \o Responses(cmds, i + 1, k, d)

RECURSIVE SumTo(_, _)
SumTo(q, k) == IF k = 0 THEN 0 ELSE SumTo(q, k - 1) + q[k]

\* C9: when the buffer holds N valid commands, the calls of the loop return
\* the commands' lengths in arrival order and hand their tokens to the
\* dispatcher in that order, the call after the N-th returns 0, and the
\* pending output holds the N commands' responses in the same order, none
\* left out.  (A command of count 0 has no verb: the loop stops being
\* described there.)
C9_PipeliningOrder ==
  (lp # "idle" /\ Pipeline.ok) =>
     LET cmds == Pipeline.cmds
         k == Len(rets)
         answered == IF lp = "undefined" THEN k - 1 ELSE k
     IN /\ k <= Len(cmds)
        /\ \A i \in 1..k : rets[i] = cmds[i].len /\ seen[i] = cmds[i].bulks
        /\ lp # "done" => pos = SumTo(rets, k)
        /\ lp = "undefined" => cmds[k].bulks = <<>>
        /\ lp = "done" => (k = Len(cmds) /\ ret = 0 /\ pos = len)
        /\ tx = Responses(cmds, 1, answered, FreshServer)

\* C28 (as stated): the parser loop never calls ProcessCommand with an
\* empty token vector: a call of try_parse_command that returned non-zero
\* with no token is not followed by the dispatcher reading a verb.
C28_DispatcherGetsVerb ==
  ~(lp = "undefined" /\ ret # 0 /\ tokens = <<>>)

(* ------------------------- claims on the server ---------------------- *)

\* The verb of the token bytes t is v (upper case), whatever its case.
IsVerb(t, v) == Len(t) >= 1 /\ UpperSeq(t[1]) = v

IsSet(t) == IsVerb(t, <<"S", "E", "T">>) /\ Len(t) >= 3

IsGet(t) == IsVerb(t, <<"G", "E", "T">>) /\ Len(t) >= 2

Ok == SimpleString(<<"O", "K">>)

Largest(S) == CHOOSE j \in S : \A i \in S : i <= j

\* The successful SETs of key k among the first i - 1 commands executed.
SetsBefore(i, k) ==
  { j \in 1..(i - 1) : IsSet(log[j].t) /\ log[j].t[2] = k /\ log[j].resp = Ok }

\* C13: every GET k is answered with the bulk string of the value of the
\* most recent SET k that succeeded, on whatever connection and however long
\* ago, and with the null bulk when no SET k has succeeded.
C13_KeyspaceIsMap ==
  \A i \in 1..Len(log) :
     IsGet(log[i].t) =>
        LET S == SetsBefore(i, log[i].t[2])
        IN log[i].resp = IF S = {} THEN NullBulk
                         ELSE BulkString(log[Largest(S)].t[3])

\* C13 witness: a GET on one connection is answered with the second of two
\* values set on another connection, whose receive buffer has been compacted
\* since.
C13_Witness ==
  /\ Len(log) = 3
  /\ IsSet(log[1].t) /\ IsSet(log[2].t) /\ IsGet(log[3].t)
  /\ log[1].t[3] # log[2].t[3]
  /\ log[1].c # log[3].c
  /\ rx[log[1].c] = <<>>
  /\ log[3].resp = BulkString(log[2].t[3])

\* C14 (as stated): a SET whose arena allocation fails is answered with the
\* error "-ERR out of memory" in the pending output, like any response; the
\* connection stays open and its later commands are executed.
C14_OutOfMemoryReply ==
  \A i \in 1..Len(log) :
     (IsSet(log[i].t) /\ log[i].resp # Ok) =>
        /\ log[i].resp = ErrorReply(ErrMemory)
        /\ log[i].sent = <<>>
        /\ why[log[i].c] \in {"", "eof", "ECONNRESET", "EAGAIN", "full", "quit"}

RECURSIVE GrammarPrefix(_, _, _)
\* The bulks of the whole valid commands at the front of the bytes d, from
\* offset p on.
GrammarPrefix(d, p, acc) ==
  LET g == GrammarCommand(d, p)
  IN IF g.ok THEN GrammarPrefix(d, g.end, Append(acc, g.bulks)) ELSE acc

RECURSIVE Executed(_, _)
\* The token vectors of the commands of connection c in the log l, in order.
Executed(l, c) ==
  IF l = <<>> THEN <<>>
  ELSE (IF Head(l).c = c THEN <<Head(l).t>> ELSE <<>>) \o Executed(Tail(l), c)

KnownVerbs ==
  { <<"P", "I", "N", "G">>, <<"E", "C", "H", "O">>, <<"S", "E", "T">>,
    <<"G", "E", "T">>, <<"C", "O", "M", "M", "A", "N", "D">>,
    <<"Q", "U", "I", "T">> }

UnknownVerb(t) == Len(t) >= 1 /\ UpperSeq(t[1]) \notin KnownVerbs

ShortSet(t) == IsVerb(t, <<"S", "E", "T">>) /\ Len(t) < 3

\* C15: an unknown verb is answered "-ERR unknown command" and a SET of fewer
\* than three tokens "-ERR wrong number of arguments"; no connection is torn
\* down for it, and the commands of each connection are executed one by one
\* in the order received, those behind a failed command included.
C15_CommandErrorsInline ==
  /\ \A i \in 1..Len(log) :
        /\ UnknownVerb(log[i].t) => log[i].resp = ErrorReply(ErrUnknown)
        /\ ShortSet(log[i].t) => log[i].resp = ErrorReply(ErrArgs)
  /\ \A c \in Conns :
        /\ Executed(log, c) = GrammarPrefix(stream[c], 0, <<>>)
        /\ why[c] \in {"", "eof", "ECONNRESET", "EAGAIN", "full", "quit"}

\* C15 witness: on one connection, still open, an unknown verb and a short
\* SET have each been followed by a GET that was answered.
C15_Witness ==
  /\ Len(log) = 4
  /\ UnknownVerb(log[1].t) /\ IsGet(log[2].t)
  /\ ShortSet(log[3].t) /\ IsGet(log[4].t)
  /\ \A i \in 1..4 : log[i].c = log[1].c
  /\ log[2].resp = NullBulk /\ log[4].resp = NullBulk
  /\ cst[log[1].c] = "open"

\* The bytes of connection c that were read and that no command has consumed.
Unconsumed(c) == Len(stream[c]) - eaten[c]

RECURSIVE Appended(_, _)
\* The bytes appended to the response buffers of connection c, per the log l.
Appended(l, c) ==
  IF l = <<>> THEN <<>>
  ELSE (IF Head(l).c = c THEN Head(l).resp ELSE <<>>) \o Appended(Tail(l), c)

\* C17 (as stated): every byte appended to the pending output of an open
\* connection has been written to the peer or is still queued.  Nothing is
\* queued between two events: the response buffer is a local of the handler.
C17_NothingDiscarded ==
  \A c \in Conns :
     cst[c] = "open" => flushed[c] = Len(Appended(log, c))

\* C18 (as stated): a connection is torn down on the read path only when a
\* read returned 0 or failed with an error other than "would block".
C18_WouldBlockKeepsConnection ==
  \A c \in Conns :
     (cst[c] = "closed" /\ why[c] \notin {"full", "quit"}) =>
        why[c] \in {"eof", "ECONNRESET"}

\* C19 (as stated): once a signal has triggered the shutdown and the loop has
\* ended, the listener has been closed and every connection has been closed.
C19_OrderedShutdown ==
  proc = "dead" => (listener = "closed" /\ \A c \in Conns : cst[c] = "closed")

\* C23: on every connection the parser cursor and the valid length at the end
\* of each parser loop satisfy 0 <= prx <= lrx <= RXCAP, so no read has
\* written past the end of the buffer, and the compacted buffer left for the
\* next read is no longer than RXCAP.
C23_ClientBufferInvariant ==
  \A c \in Conns :
     /\ 0 <= prx[c] /\ prx[c] <= lrx[c] /\ lrx[c] <= RXCAP
     /\ Len(rx[c]) <= RXCAP

\* C23 witness: a read has filled a buffer up to its end, and the parser
\* loop consumed a part of it.
C23_Witness ==
  \E c \in Conns : 0 < prx[c] /\ prx[c] < lrx[c] /\ lrx[c] = RXCAP

\* C24: the buffer of an open connection holds, in order, exactly the bytes
\* read from it that no command has consumed, so the parser sees the bytes
\* as they were received; and the commands executed on a connection are the
\* whole commands at the front of the bytes read, each once, however the
\* reads cut them.
C24_CompactionKeepsTail ==
  \A c \in Conns :
     /\ cst[c] = "open" =>
           rx[c] = SubSeq(stream[c], eaten[c] + 1, Len(stream[c]))
     /\ Executed(log, c) = GrammarPrefix(stream[c], 0, <<>>)

\* C24 witness: the only command executed on a connection was completed by a
\* read that brought fewer bytes than the command has, behind a part that
\* compaction had left at the front of the buffer.
C24_Witness ==
  \E i \in 1..Len(log) :
     /\ Len(log[i].t) = 3
     /\ log[i].fresh < Len(Request(log[i].t))
     /\ stream[log[i].c] = Request(log[i].t)
     /\ Executed(log, log[i].c) = <<log[i].t>>
     /\ rx[log[i].c] = <<>> /\ cst[log[i].c] = "open"

RECURSIVE Stored(_)
\* The number of value bytes of the successful SETs among the first i
\* commands executed.
Stored(i) ==
  IF i = 0 THEN 0
  ELSE Stored(i - 1)
         + (IF IsSet(log[i].t) /\ log[i].resp = Ok THEN Len(log[i].t[3]) ELSE 0)

\* C25: every value-view of the keyspace is the arena range that was
\* allocated for the last successful SET of its key, and lies inside the
\* live region [buffer, buffer + offset); the cursor is the total of all the
\* values ever stored: the arena has not been reset.
C25_ViewsInLiveArena ==
  /\ offset = Stored(Len(log)) /\ offset <= Capacity /\ aop # "clear"
  /\ \A k \in DOMAIN store :
        /\ 0 <= store[k].off /\ store[k].off + store[k].n <= offset
        /\ LET S == SetsBefore(Len(log) + 1, k)
           IN /\ S # {}
              /\ store[k].off = Stored(Largest(S) - 1)
              /\ store[k].n = Len(log[Largest(S)].t[3])

\* C25 witness: a key was set twice; its view is the second allocation, and
\* the receive buffers the values came in have been emptied since.
C25_Witness ==
  \E k \in DOMAIN store :
     /\ store[k].off > 0 /\ store[k].n > 0
     /\ Cardinality(SetsBefore(Len(log) + 1, k)) = 2
     /\ \A c \in Conns : rx[c] = <<>>

\* The live handles that hold the descriptor d.
Owners(d) == { h \in Handles : socks[h].st = "live" /\ socks[h].fd_ = d }

\* C20: whatever handles are constructed, moved from and destroyed, a
\* descriptor that was handed out has exactly one live owner until that owner
\* is destroyed and has been closed exactly once from then on, so none is
\* closed twice and none is open when all handles are gone; descriptors not
\* handed out are never closed, and a handle whose fd_ is -1 (moved-from,
\* default, failed accept) never calls close.
C20_SocketOwnership ==
  /\ closes[-1] = 0
  /\ \A d \in 1..MaxFds :
        IF d < nextfd
        THEN /\ closes[d] + Cardinality(Owners(d)) = 1
             /\ closes[d] <= 1
        ELSE closes[d] = 0 /\ Owners(d) = {}
  /\ \A h \in Handles : socks[h].moved => socks[h].fd_ = -1

\* C20 witness: a descriptor was moved from one handle to another, both
\* handles are destroyed, and the descriptor was closed once, by the second.
C20_Witness ==
  \E h, other \in Handles :
     /\ socks[h].st = "dead" /\ socks[other].st = "dead"
     /\ socks[other].moved /\ socks[other].fd_ = -1
     /\ ~socks[h].moved /\ socks[h].fd_ = 1
     /\ closes[1] = 1 /\ closes[-1] = 0

====
